---- MODULE Spec2Model ----
(***************************************************************************)
(* qtaskdist: a producer (HTTP API, test client) stores a task row and     *)
(* appends an envelope to a Redis stream; workers of one consumer group    *)
(* read the stream competitively, drive the task's status in the store,    *)
(* call the execution routine and acknowledge the message.                 *)
(*                                                                         *)
(* The model follows src/qtaskdist_api and src/qtaskdist_worker.  The      *)
(* Redis stream commands (XADD, XGROUP CREATE, XREADGROUP '>', XACK) and    *)
(* the SQL UPDATE are modelled by their documented effect at the call      *)
(* sites.  An action is the code from one effect on the store or the       *)
(* stream up to and including the next one.                                *)
(***************************************************************************)
EXTENDS Integers, Sequences, FiniteSets, TLC

(* ------------------------------ bounds -------------------------------- *)
\* number of task ids that producers may allocate
MaxTasks == 2
\* number of disturbances: infrastructure faults (store error, XACK error,
\* XREADGROUP error) and cancellations of a worker
MaxFaults == 1

(* ----------------------------- constants ------------------------------ *)
NULL == "NULL"
DQ == "\""
BS == "\\"
SQ == "'"

\* a slip the C22 check must notice: .get with a default stream, so that an
\* unknown task_type is routed instead of refused
STREAMS_with_default(task_type) ==
    CASE task_type = "simulate" -> "stream:simulate"
      [] task_type = "c_qir_convert" -> "stream:c_qir"
      [] task_type = "backend_run" -> "stream:backend"
      [] OTHER -> "stream:simulate"

\* queue_manager.STREAMS: task_type -> stream (the API's routing table)
STREAMS(task_type) ==
    CASE task_type = "simulate" -> "stream:simulate"
      [] task_type = "c_qir_convert" -> "stream:c_qir"
      [] task_type = "backend_run" -> "stream:backend"
      [] OTHER -> NULL

\* test_client.STREAMS (the same table as circuit_processor.STREAMS)
WorkerSTREAMS(task_type) ==
    CASE task_type = "simulate" -> "stream:simulate"
      [] task_type = "backend" -> "stream:backend"
      [] OTHER -> NULL

StreamNames == {"stream:simulate", "stream:c_qir", "stream:backend"}

\* the worker processes: two simulator workers (simulator_worker.main run
\* twice; the consumer name is the process id)
Workers == {"sim1", "sim2"}
StartsBefore(v, w) == v = "sim1" /\ w = "sim2"
\* simulator_worker.main: the stream the worker consumes
WorkerStream(w) == WorkerSTREAMS("simulate")
\* simulator_worker.main: batch_size passed to start_consuming
BatchSize == 10

\* Task column defaults (models.Task)
DefaultRetryCount == 0
DefaultMaxRetries == 3

(* ------------------------------ inputs -------------------------------- *)
TaskIds == 1..MaxTasks
\* payloads: the circuit_data text, a string over a small alphabet; the
\* second contains an apostrophe
GoodPayload == <<"a", DQ>>
QuotePayload == <<"a", SQ>>
\* creation requests (TaskCreate): task_type, payload and the error column;
\* "bogus" is a task_type with no stream
ApiRequests ==
    {[task_type |-> "simulate", payload |-> GoodPayload, error |-> NULL],
     [task_type |-> "simulate", payload |-> QuotePayload, error |-> NULL],
     [task_type |-> "simulate", payload |-> GoodPayload, error |-> "old"],
     [task_type |-> "c_qir_convert", payload |-> GoodPayload, error |-> NULL],
     [task_type |-> "bogus", payload |-> GoodPayload, error |-> NULL]}
\* test client calls: task_type and payload
ClientRequests ==
    {[task_type |-> "simulate", payload |-> GoodPayload]}
\* what the execution routine returns, and the messages of what it raises
Results == {"r1"}
ExecErrors == {"boom", ""}

(* ------------------------- JSON of the payload ------------------------ *)
\* json.dumps of a string: quote it, escape double quote and backslash
RECURSIVE JsonEscape(_)
JsonEscape(s) ==
    IF s = <<>> THEN <<>>
    ELSE IF Head(s) \in {DQ, BS} THEN <<BS, Head(s)>> \o JsonEscape(Tail(s))
    ELSE <<Head(s)>> \o JsonEscape(Tail(s))

JsonDumps(p) == <<DQ>> \o JsonEscape(p) \o <<DQ>>

\* str.replace("'", '"')
RECURSIVE ReplaceQuotes(_)
ReplaceQuotes(s) ==
    IF s = <<>> THEN <<>>
    ELSE <<IF Head(s) = SQ THEN DQ ELSE Head(s)>> \o ReplaceQuotes(Tail(s))

\* json.loads of a string literal: the body up to the closing quote, which
\* must be the last character; [ok |-> FALSE] stands for JSONDecodeError
RECURSIVE JsonBody(_, _)
JsonBody(s, acc) ==
    IF s = <<>> THEN [ok |-> FALSE, value |-> <<>>]
    ELSE IF Head(s) = DQ
         THEN [ok |-> Tail(s) = <<>>, value |-> acc]
    ELSE IF Head(s) = BS
         THEN IF Len(s) >= 2 /\ s[2] \in {DQ, BS}
              THEN JsonBody(Tail(Tail(s)), Append(acc, s[2]))
              ELSE [ok |-> FALSE, value |-> <<>>]
    ELSE JsonBody(Tail(s), Append(acc, Head(s)))

JsonLoads(s) ==
    IF s # <<>> /\ Head(s) = DQ THEN JsonBody(Tail(s), <<>>)
    ELSE [ok |-> FALSE, value |-> <<>>]

\* QueueProcessor.parse_task: ok = FALSE stands for the ValueError it raises
parse_task(message) ==
    LET payload == JsonLoads(ReplaceQuotes(message.payload))
    IN  [ok |-> payload.ok,
         task_id |-> message.task_id,
         task_type |-> message.task_type,
         payload |-> payload.value]

(* ------------------------------- state -------------------------------- *)
VARIABLES
    tasks,      \* Task Store: task_id -> row, for the rows that exist
    nextId,     \* next fresh task id (uuid4)
    req,        \* task id of the API request between insert and enqueue, or 0
    resp,       \* finished API requests: task_id -> "ok" | "error"
    streams,    \* stream name -> sequence of envelopes (message id = index)
    groups,     \* stream name -> consumer group: exists, last delivered id, PEL
    pc,         \* worker -> position in main / start_consuming / process_message
    batch,      \* worker -> message ids of the current read not yet processed
    cur,        \* worker -> the message process_message is (or was last) called with
    received,   \* worker -> message ids ever returned to it by XREADGROUP
    handled,    \* worker -> message ids process_message has returned for
    deliveries, \* message id -> number of times XREADGROUP has returned it
    invoked,    \* message id -> number of calls of processor_func for it
    cancelled,  \* the workers whose task has been cancelled
    faults      \* infrastructure faults and cancellations so far

vars == <<tasks, nextId, req, resp, streams, groups, pc, batch, cur,
          received, handled, deliveries, invoked, cancelled, faults>>

producerVars == <<tasks, nextId, req, resp, streams>>
logVars == <<deliveries, invoked, cancelled>>
workerVars == <<pc, batch, cur, received, handled, logVars>>

NoGroup == [exists |-> FALSE, last |-> 0, pel |-> {}]
NoCur == [mid |-> 0, task_id |-> 0, result |-> NULL, errKind |-> "none",
          errMsg |-> NULL, updFailed |-> FALSE]

Init ==
    /\ tasks = <<>>
    /\ nextId = 1
    /\ req = 0
    /\ resp = <<>>
    /\ streams = [s \in StreamNames |-> <<>>]
    /\ groups = [s \in StreamNames |-> NoGroup]
    /\ pc = [w \in Workers |-> "init"]
    /\ batch = [w \in Workers |-> <<>>]
    /\ cur = [w \in Workers |-> NoCur]
    /\ received = [w \in Workers |-> {}]
    /\ handled = [w \in Workers |-> {}]
    /\ deliveries = [m \in TaskIds |-> 0]
    /\ invoked = [m \in TaskIds |-> 0]
    /\ cancelled = {}
    /\ faults = 0

(* ----------------------------- the stream ----------------------------- *)
\* XADD: append the envelope
xadd(strs, s, envelope) == [strs EXCEPT ![s] = Append(@, envelope)]

\* a slip the C9 check must notice: the group is created with id='$', after
\* the entries already in the stream
xgroup_create_at_end(g, entries) ==
    IF g.exists THEN g ELSE [exists |-> TRUE, last |-> Len(entries), pel |-> {}]

\* a slip the C19 check must notice: an existing group is created afresh
xgroup_create_afresh(g, entries) == [exists |-> TRUE, last |-> 0, pel |-> {}]

\* XGROUP CREATE s g id='0' mkstream: a new group starts before the first
\* entry of the stream; an existing group answers BUSYGROUP and is left as
\* it is
xgroup_create(g, entries) ==
    IF g.exists THEN g ELSE [exists |-> TRUE, last |-> 0, pel |-> {}]

\* a slip the C11 check must notice: the read asks for id '0' (the entries
\* from the start of the stream) instead of '>'
NewIdsFromStart(s, n) ==
    LET hi == IF Len(streams[s]) < n THEN Len(streams[s]) ELSE n
    IN  [i \in 1..hi |-> i]

\* a slip the C20 check must notice: the read returns the newest entry first
NewIdsNewestFirst(s, n) ==
    LET lo == groups[s].last + 1
        hi == IF Len(streams[s]) < groups[s].last + n
              THEN Len(streams[s]) ELSE groups[s].last + n
    IN  [i \in 1..(hi - lo + 1) |-> hi - i + 1]

\* the entries XREADGROUP ... '>' count=n returns: ids after the group's
\* last delivered id, oldest first, at most n
NewIds(s, n) ==
    LET lo == groups[s].last + 1
        hi == IF Len(streams[s]) < groups[s].last + n
              THEN Len(streams[s]) ELSE groups[s].last + n
    IN  [i \in 1..(hi - lo + 1) |-> lo + i - 1]

SeqRange(q) == {q[i] : i \in 1..Len(q)}

\* a slip the C4 check must notice: the read does not move the group's cursor
xreadgroup_keep_cursor(g, consumer, ids) ==
    IF ids = <<>> THEN g
    ELSE [g EXCEPT !.pel = @ \cup {[id |-> i, consumer |-> consumer] : i \in SeqRange(ids)}]

\* a slip the C21 check must notice: the read is made with NOACK, so what it
\* returns never enters the pending list
xreadgroup_noack(g, consumer, ids) ==
    IF ids = <<>> THEN g ELSE [g EXCEPT !.last = ids[Len(ids)]]

\* XREADGROUP's effect on the group: the cursor advances and the entries
\* enter the pending list under the consumer
xreadgroup(g, consumer, ids) ==
    IF ids = <<>> THEN g
    ELSE [g EXCEPT !.last = ids[Len(ids)],
                   !.pel = @ \cup {[id |-> i, consumer |-> consumer] : i \in SeqRange(ids)}]

\* a slip the C18 check must notice: the acknowledgment is cumulative, it
\* drops every entry up to the id
xack_cumulative(g, mid) == [g EXCEPT !.pel = {p \in @ : p.id > mid}]

\* XACK: drop the id from the pending list (nothing happens if it is absent)
xack(g, mid) == [g EXCEPT !.pel = {p \in @ : p.id # mid}]

PendingIds(s) == {p.id : p \in groups[s].pel}

(* --------------------------- the task store --------------------------- *)
\* crud_task.create_task: the row as inserted (defaults from models.Task)
NewRow(task_type, payload, error) ==
    [task_type |-> task_type, status |-> "pending", payload |-> payload,
     result |-> NULL, error |-> error,
     retry_count |-> DefaultRetryCount, max_retries |-> DefaultMaxRetries]

\* a slip the C13 check must notice: the update is an upsert, which inserts a
\* row when none has the id
update_task_status_upsert(store, id, status, result, error, ok) ==
    IF ~ok THEN store
    ELSE IF id \notin DOMAIN store
         THEN store @@ (id :> [task_type |-> NULL, status |-> status,
                               payload |-> <<>>, result |-> result, error |-> error,
                               retry_count |-> DefaultRetryCount,
                               max_retries |-> DefaultMaxRetries])
    ELSE [store EXCEPT ![id] =
            [@ EXCEPT !.status = status,
                      !.result = IF result # NULL THEN result ELSE @,
                      !.error = IF error # NULL THEN error ELSE @]]

\* a slip the C24 check must notice: a failed status also counts a retry
update_task_status_counting(store, id, status, result, error, ok) ==
    IF ~ok \/ id \notin DOMAIN store THEN store
    ELSE [store EXCEPT ![id] =
            [@ EXCEPT !.status = status,
                      !.result = IF result # NULL THEN result ELSE @,
                      !.error = IF error # NULL THEN error ELSE @,
                      !.retry_count = IF status = "failed" THEN @ + 1 ELSE @]]

\* a slip the C27 check must notice: no rollback, the failed statement
\* leaves the new status behind
update_task_status_no_rollback(store, id, status, result, error, ok) ==
    IF id \notin DOMAIN store THEN store
    ELSE IF ~ok THEN [store EXCEPT ![id].status = status]
    ELSE [store EXCEPT ![id] =
            [@ EXCEPT !.status = status,
                      !.result = IF result # NULL THEN result ELSE @,
                      !.error = IF error # NULL THEN error ELSE @]]

\* QueueProcessor.update_task_status: UPDATE tasks SET status, [result],
\* [error] WHERE task_id = id; a missing row matches nothing; ok = FALSE is
\* the except branch (the statement failed and was rolled back)
update_task_status(store, id, status, result, error, ok) ==
    IF ~ok \/ id \notin DOMAIN store THEN store
    ELSE [store EXCEPT ![id] =
            [@ EXCEPT !.status = status,
                      !.result = IF result # NULL THEN result ELSE @,
                      !.error = IF error # NULL THEN error ELSE @]]

(* ------------------------------ producer ------------------------------ *)
\* main.create_task, first await: crud_task.create_task inserts and commits
ApiInsert(task_type, payload, error) ==
    /\ req = 0
    /\ nextId <= MaxTasks
    /\ tasks' = tasks @@ (nextId :> NewRow(task_type, payload, error))
    /\ req' = nextId
    /\ nextId' = nextId + 1
    /\ UNCHANGED <<resp, streams, groups, workerVars, faults>>

\* a slip the C25 check must notice: the insert is not committed, the row is
\* gone when the request ends
ApiEnqueueUncommitted ==
    /\ req # 0
    /\ LET row == tasks[req]
           stream_name == STREAMS(row.task_type)
       IN  IF stream_name = NULL
           THEN /\ resp' = resp @@ (req :> "error")
                /\ UNCHANGED streams
           ELSE /\ streams' = xadd(streams, stream_name,
                                   [task_id |-> req, task_type |-> row.task_type,
                                    payload |-> JsonDumps(row.payload)])
                /\ resp' = resp @@ (req :> "ok")
    /\ req' = 0
    /\ tasks' = [t \in DOMAIN tasks \ {req} |-> tasks[t]]
    /\ UNCHANGED <<nextId, groups, workerVars, faults>>

\* main.create_task, second await: queue_manager.enqueue_task
ApiEnqueue ==
    /\ req # 0
    /\ LET row == tasks[req]
           stream_name == STREAMS(row.task_type)
       IN  IF stream_name = NULL
           THEN /\ resp' = resp @@ (req :> "error")
                /\ UNCHANGED streams
           ELSE /\ streams' = xadd(streams, stream_name,
                                   [task_id |-> req, task_type |-> row.task_type,
                                    payload |-> JsonDumps(row.payload)])
                /\ resp' = resp @@ (req :> "ok")
    /\ req' = 0
    /\ UNCHANGED <<tasks, nextId, groups, workerVars, faults>>

\* a slip the C16 check must notice: the client sends every envelope under
\* one fixed task id instead of a fresh uuid4
ClientEnqueueSameId(task_type, payload) ==
    /\ nextId <= MaxTasks
    /\ WorkerSTREAMS(task_type) # NULL
    /\ streams' = xadd(streams, WorkerSTREAMS(task_type),
                       [task_id |-> MaxTasks, task_type |-> task_type,
                        payload |-> JsonDumps(payload)])
    /\ nextId' = nextId + 1
    /\ UNCHANGED <<tasks, req, resp, groups, workerVars, faults>>

\* test_client.TestClient.enqueue_task: a fresh id and no store row
ClientEnqueue(task_type, payload) ==
    /\ nextId <= MaxTasks
    /\ WorkerSTREAMS(task_type) # NULL
    /\ streams' = xadd(streams, WorkerSTREAMS(task_type),
                       [task_id |-> nextId, task_type |-> task_type,
                        payload |-> JsonDumps(payload)])
    /\ nextId' = nextId + 1
    /\ UNCHANGED <<tasks, req, resp, groups, workerVars, faults>>

(* ------------------------------- worker ------------------------------- *)
\* QueueProcessor.initialize (called by main before start_consuming):
\* connect and create the consumer group if it does not exist; the worker
\* processes are named in the order they start
Initialize(w) ==
    /\ pc[w] = "init"
    /\ \A v \in Workers : StartsBefore(v, w) => pc[v] # "init"
    /\ groups' = [groups EXCEPT ![WorkerStream(w)] =
                     xgroup_create(@, streams[WorkerStream(w)])]
    /\ pc' = [pc EXCEPT ![w] = "poll"]
    /\ UNCHANGED <<producerVars, batch, cur, received, handled, logVars, faults>>

\* start_consuming: one XREADGROUP; an empty answer polls again
Poll(w) ==
    /\ pc[w] = "poll"
    /\ groups[WorkerStream(w)].exists
    /\ LET s == WorkerStream(w)
           ids == NewIds(s, BatchSize)
       IN  /\ ids # <<>>
           /\ groups' = [groups EXCEPT ![s] = xreadgroup(@, w, ids)]
           /\ batch' = [batch EXCEPT ![w] = ids]
           /\ received' = [received EXCEPT ![w] = @ \cup SeqRange(ids)]
           /\ deliveries' = [m \in TaskIds |->
                                IF m \in SeqRange(ids) THEN deliveries[m] + 1
                                ELSE deliveries[m]]
           /\ pc' = [pc EXCEPT ![w] = "loop"]
    /\ UNCHANGED <<producerVars, cur, handled, invoked, cancelled, faults>>

\* a slip the C14 check must notice: no handler for the error of the poll, so
\* it ends start_consuming
PollErrorEndsLoop(w) ==
    /\ pc[w] = "poll"
    /\ faults < MaxFaults
    /\ faults' = faults + 1
    /\ pc' = [pc EXCEPT ![w] = "stopped"]
    /\ UNCHANGED <<producerVars, groups, batch, cur, received, handled, logVars>>

\* start_consuming: XREADGROUP raises; the loop sleeps and polls again
PollError(w) ==
    /\ pc[w] = "poll"
    /\ faults < MaxFaults
    /\ faults' = faults + 1
    /\ UNCHANGED <<producerVars, groups, workerVars>>

\* start_consuming after process_message has returned: the next message of
\* the batch, or the next XREADGROUP when the batch is exhausted
AfterReturn(rest) == IF rest = <<>> THEN "poll" ELSE "loop"

\* the except block of process_message: parse again and record the failure;
\* whatever is raised in there is swallowed
ExceptHandler(store, message, errMsg, ok) ==
    LET task == parse_task(message)
    IN  IF task.ok
        THEN update_task_status(store, task.task_id, "failed", NULL, errMsg, ok)
        ELSE store

\* a slip the C23 check must notice: process_message is started as a task of
\* its own and not awaited, so the loop takes the next message at once
BeginWithoutAwait(w, ok) ==
    /\ pc[w] \in {"loop", "exec"}
    /\ batch[w] # <<>>
    /\ ok \/ faults < MaxFaults
    /\ LET mid == Head(batch[w])
           message == streams[WorkerStream(w)][mid]
           task == parse_task(message)
       IN  IF task.ok
           THEN /\ tasks' = update_task_status(tasks, task.task_id, "processing",
                                               NULL, NULL, ok)
                /\ cur' = [cur EXCEPT ![w] =
                             [NoCur EXCEPT !.mid = mid, !.task_id = task.task_id,
                                           !.updFailed = ~ok]]
                /\ pc' = [pc EXCEPT ![w] = "exec"]
                /\ invoked' = [invoked EXCEPT ![mid] = @ + 1]
                /\ faults' = IF ok THEN faults ELSE faults + 1
                /\ UNCHANGED handled
           ELSE /\ ok
                /\ tasks' = ExceptHandler(tasks, message, "Failed to parse task", TRUE)
                /\ cur' = [cur EXCEPT ![w] =
                             [NoCur EXCEPT !.mid = mid, !.errKind = "decode",
                                           !.errMsg = "Failed to parse task"]]
                /\ handled' = [handled EXCEPT ![w] = @ \cup {mid}]
                /\ pc' = [pc EXCEPT ![w] = AfterReturn(Tail(batch[w]))]
                /\ UNCHANGED <<invoked, faults>>
    /\ batch' = [batch EXCEPT ![w] = Tail(@)]
    /\ UNCHANGED <<nextId, req, resp, streams, groups, received, deliveries,
                   cancelled>>

\* process_message up to its first await: parse the envelope and set the
\* task to processing; a parse failure runs the except block and returns
Begin(w, ok) ==
    /\ pc[w] = "loop"
    /\ batch[w] # <<>>
    /\ ok \/ faults < MaxFaults
    /\ LET mid == Head(batch[w])
           message == streams[WorkerStream(w)][mid]
           task == parse_task(message)
       IN  IF task.ok
           THEN /\ tasks' = update_task_status(tasks, task.task_id, "processing",
                                               NULL, NULL, ok)
                /\ cur' = [cur EXCEPT ![w] =
                             [NoCur EXCEPT !.mid = mid, !.task_id = task.task_id,
                                           !.updFailed = ~ok]]
                /\ pc' = [pc EXCEPT ![w] = "exec"]
                /\ invoked' = [invoked EXCEPT ![mid] = @ + 1]
                /\ faults' = IF ok THEN faults ELSE faults + 1
                /\ UNCHANGED handled
           ELSE /\ ok
                /\ tasks' = ExceptHandler(tasks, message, "Failed to parse task", TRUE)
                /\ cur' = [cur EXCEPT ![w] =
                             [NoCur EXCEPT !.mid = mid, !.errKind = "decode",
                                           !.errMsg = "Failed to parse task"]]
                /\ handled' = [handled EXCEPT ![w] = @ \cup {mid}]
                /\ pc' = [pc EXCEPT ![w] = AfterReturn(Tail(batch[w]))]
                /\ UNCHANGED <<invoked, faults>>
    /\ batch' = [batch EXCEPT ![w] = Tail(@)]
    /\ UNCHANGED <<nextId, req, resp, streams, groups, received, deliveries,
                   cancelled>>

\* process_message: processor_func(task) returns r and the task is updated
\* to completed with it (the execution itself touches neither the store nor
\* the stream, so its end and the update that follows are one step)
ExecuteOk(w, r, ok) ==
    /\ pc[w] = "exec"
    /\ ok \/ faults < MaxFaults
    /\ tasks' = update_task_status(tasks, cur[w].task_id, "completed", r, NULL, ok)
    /\ cur' = [cur EXCEPT ![w].result = r, ![w].updFailed = @ \/ ~ok]
    /\ pc' = [pc EXCEPT ![w] = "ack"]
    /\ faults' = IF ok THEN faults ELSE faults + 1
    /\ UNCHANGED <<nextId, req, resp, streams, groups, batch, received, handled,
                   logVars>>

\* a slip the C10 check must notice: the except block raises again, so
\* start_consuming's handler abandons the rest of the batch
ExecuteFailReraise(w, msg, ok) ==
    /\ pc[w] = "exec"
    /\ ok \/ faults < MaxFaults
    /\ tasks' = ExceptHandler(tasks, streams[WorkerStream(w)][cur[w].mid], msg, ok)
    /\ cur' = [cur EXCEPT ![w].errKind = "exec", ![w].errMsg = msg,
                          ![w].updFailed = @ \/ ~ok]
    /\ handled' = [handled EXCEPT ![w] = @ \cup {cur[w].mid}]
    /\ batch' = [batch EXCEPT ![w] = <<>>]
    /\ pc' = [pc EXCEPT ![w] = "poll"]
    /\ faults' = IF ok THEN faults ELSE faults + 1
    /\ UNCHANGED <<nextId, req, resp, streams, groups, received, logVars>>

\* process_message: processor_func(task) raises e with str(e) = msg; the
\* except block records the failure and process_message returns
ExecuteFail(w, msg, ok) ==
    /\ pc[w] = "exec"
    /\ ok \/ faults < MaxFaults
    /\ tasks' = ExceptHandler(tasks, streams[WorkerStream(w)][cur[w].mid], msg, ok)
    /\ cur' = [cur EXCEPT ![w].errKind = "exec", ![w].errMsg = msg,
                          ![w].updFailed = @ \/ ~ok]
    /\ handled' = [handled EXCEPT ![w] = @ \cup {cur[w].mid}]
    /\ pc' = [pc EXCEPT ![w] = AfterReturn(batch[w])]
    /\ faults' = IF ok THEN faults ELSE faults + 1
    /\ UNCHANGED <<nextId, req, resp, streams, groups, batch, received, logVars>>

\* process_message: XACK, then return
Ack(w) ==
    /\ pc[w] = "ack"
    /\ groups' = [groups EXCEPT ![WorkerStream(w)] = xack(@, cur[w].mid)]
    /\ handled' = [handled EXCEPT ![w] = @ \cup {cur[w].mid}]
    /\ pc' = [pc EXCEPT ![w] = AfterReturn(batch[w])]
    /\ UNCHANGED <<producerVars, batch, cur, received, logVars, faults>>

\* process_message: XACK raises; the except block records the failure and
\* process_message returns
AckError(w) ==
    /\ pc[w] = "ack"
    /\ faults < MaxFaults
    /\ faults' = faults + 1
    /\ tasks' = ExceptHandler(tasks, streams[WorkerStream(w)][cur[w].mid],
                              "Connection closed", TRUE)
    /\ cur' = [cur EXCEPT ![w].errKind = "xack", ![w].errMsg = "Connection closed"]
    /\ handled' = [handled EXCEPT ![w] = @ \cup {cur[w].mid}]
    /\ pc' = [pc EXCEPT ![w] = AfterReturn(batch[w])]
    /\ UNCHANGED <<nextId, req, resp, streams, groups, batch, received, logVars>>

\* the positions where a worker is suspended in an await whose CancelledError
\* reaches start_consuming's handler
CancelPoints == {"init", "poll", "exec", "ack"}

\* cancellation of the worker's task: start_consuming breaks and main closes
\* the connections (first two cases: in an await of the list above, in the
\* first update of process_message).  When it arrives while the except block
\* of process_message awaits its update, the bare except swallows the
\* CancelledError: the update is lost and the loop goes on (third case).
Cancel(w) ==
    /\ faults < MaxFaults
    /\ faults' = faults + 1
    /\ \/ /\ pc[w] \in CancelPoints
          /\ pc' = [pc EXCEPT ![w] = "stopped"]
          /\ UNCHANGED <<batch, cur, handled>>
       \/ /\ pc[w] = "loop"
          /\ batch[w] # <<>>
          /\ parse_task(streams[WorkerStream(w)][Head(batch[w])]).ok
          /\ cur' = [cur EXCEPT ![w] =
                       [NoCur EXCEPT !.mid = Head(batch[w]),
                                     !.task_id = streams[WorkerStream(w)][Head(batch[w])].task_id,
                                     !.updFailed = TRUE]]
          /\ batch' = [batch EXCEPT ![w] = Tail(@)]
          /\ pc' = [pc EXCEPT ![w] = "stopped"]
          /\ UNCHANGED handled
       \/ /\ pc[w] = "exec"
          /\ \E msg \in ExecErrors :
                cur' = [cur EXCEPT ![w].errKind = "exec", ![w].errMsg = msg,
                                   ![w].updFailed = TRUE]
          /\ handled' = [handled EXCEPT ![w] = @ \cup {cur[w].mid}]
          /\ pc' = [pc EXCEPT ![w] = AfterReturn(batch[w])]
          /\ UNCHANGED batch
    /\ cancelled' = cancelled \cup {w}
    /\ UNCHANGED <<producerVars, groups, received, deliveries, invoked>>

(* --------------------------- specifications --------------------------- *)
Next ==
    \/ \E r \in ApiRequests : ApiInsert(r.task_type, r.payload, r.error)
    \/ ApiEnqueue
    \/ \E r \in ClientRequests : ClientEnqueue(r.task_type, r.payload)
    \/ \E w \in Workers : Initialize(w)
    \/ \E w \in Workers : Poll(w)
    \/ \E w \in Workers : PollError(w)
    \/ \E w \in Workers, ok \in BOOLEAN : Begin(w, ok)
    \/ \E w \in Workers, r \in Results, ok \in BOOLEAN : ExecuteOk(w, r, ok)
    \/ \E w \in Workers, msg \in ExecErrors, ok \in BOOLEAN : ExecuteFail(w, msg, ok)
    \/ \E w \in Workers : Ack(w)
    \/ \E w \in Workers : AckError(w)
    \/ \E w \in Workers : Cancel(w)

Spec == Init /\ [][Next]_vars

\* normal operation: no infrastructure fault, no cancellation
WorkerStep(w) ==
    \/ Initialize(w)
    \/ Poll(w)
    \/ Begin(w, TRUE)
    \/ \E r \in Results : ExecuteOk(w, r, TRUE)
    \/ \E msg \in ExecErrors : ExecuteFail(w, msg, TRUE)
    \/ Ack(w)

NextNormal ==
    \/ \E r \in ApiRequests : ApiInsert(r.task_type, r.payload, r.error)
    \/ ApiEnqueue
    \/ \E r \in ClientRequests : ClientEnqueue(r.task_type, r.payload)
    \/ \E w \in Workers : WorkerStep(w)

\* every started request is answered, every worker process keeps running and
\* every execution ends
FairSpec ==
    /\ Init
    /\ [][NextNormal]_vars
    /\ WF_vars(ApiEnqueue)
    /\ \A w \in Workers : WF_vars(WorkerStep(w))

(* ------------------------------- claims ------------------------------- *)
Terminal == {"completed", "failed"}
SimStream == WorkerSTREAMS("simulate")

\* process_message has returned to the loop for the message in cur[w]
Returned(w) == cur[w].mid \in handled[w]

\* an envelope for task t is in some stream
Enqueued(t) ==
    \E s \in StreamNames : \E i \in 1..Len(streams[s]) : streams[s][i].task_id = t

\* C1: once process_message has finished with a message whose execution
\* raised, the message is acknowledged (it is no longer in the group's
\* pending list); stated for the runs where the store accepted the updates.
C1_FailedExecutionAcked ==
    \A w \in Workers :
        (Returned(w) /\ cur[w].errKind = "exec" /\ ~cur[w].updFailed)
            => cur[w].mid \notin PendingIds(WorkerStream(w))

\* C2: when the execution of a task whose row exists raises e, then after
\* process_message the stored status is failed and the stored error is the
\* non-empty text str(e) (the store accepted the updates).
C2_FailedWithNonEmptyError ==
    \A w \in Workers :
        (/\ Returned(w)
         /\ cur[w].errKind = "exec"
         /\ ~cur[w].updFailed
         /\ cur[w].task_id \in DOMAIN tasks)
            => /\ tasks[cur[w].task_id].status = "failed"
               /\ tasks[cur[w].task_id].error = cur[w].errMsg
               /\ tasks[cur[w].task_id].error # ""

\* C3: once process_message has finished with an envelope that failed to
\* decode, the message is acknowledged (it is not left in the group's
\* pending list).
C3_DecodeFailureAcked ==
    \A w \in Workers :
        (Returned(w) /\ cur[w].errKind = "decode")
            => cur[w].mid \notin PendingIds(WorkerStream(w))

\* C4: no message id is ever returned by XREADGROUP to two consumers of the
\* group.
C4_NoSharedDelivery ==
    \A w1 \in Workers, w2 \in Workers :
        w1 # w2 => received[w1] \cap received[w2] = {}

C4_Witness ==
    /\ received["sim1"] # {}
    /\ received["sim2"] # {}

\* C5: under normal operation (no fault, no cancellation, fair scheduling)
\* every task created and enqueued through the API eventually has a terminal
\* status in the store.
C5_EveryTaskTerminates ==
    \A t \in TaskIds :
        (t \in DOMAIN resp /\ resp[t] = "ok")
            ~> (t \in DOMAIN tasks /\ tasks[t].status \in Terminal)

\* C6 (the clause on terminal states, which the list of allowed changes
\* implies): once a stored status is completed or failed, no step changes it.
C6_TerminalStatusNeverLeft ==
    [][\A t \in DOMAIN tasks :
          tasks[t].status \in Terminal => tasks'[t].status = tasks[t].status]_vars

\* C7: after a creation request with an unrouted task_type has ended with an
\* error, the store has no row for the task and no stream has its envelope.
C7_UnknownTypeLeavesNothing ==
    \A t \in DOMAIN resp :
        resp[t] = "error" => (t \notin DOMAIN tasks /\ ~Enqueued(t))

\* C8: when the execution of a task whose row exists returns r, then after
\* process_message the row has status completed, result r and a null error,
\* whatever the error was before (the store accepted the updates).
C8_CompletedClearsError ==
    \A w \in Workers :
        (/\ Returned(w)
         /\ cur[w].errKind = "none"
         /\ cur[w].result # NULL
         /\ ~cur[w].updFailed
         /\ cur[w].task_id \in DOMAIN tasks)
            => /\ tasks[cur[w].task_id].status = "completed"
               /\ tasks[cur[w].task_id].result = cur[w].result
               /\ tasks[cur[w].task_id].error = NULL

\* C9: within the group every appended envelope is delivered, to exactly one
\* worker: the entries up to the group's cursor, also those appended before
\* the group existed, are each in exactly one worker's reads, and the entries
\* after it are in nobody's reads (the next read returns them); once the
\* cursor is at the end the reads partition the whole stream.
C9_EveryEnvelopeDeliveredOnce ==
    groups[SimStream].exists =>
        \A m \in 1..Len(streams[SimStream]) :
            Cardinality({w \in Workers : m \in received[w]})
                = IF m <= groups[SimStream].last THEN 1 ELSE 0

C9_Witness ==
    /\ Len(streams[SimStream]) >= 2
    /\ received["sim1"] # {}
    /\ received["sim2"] # {}
    /\ received["sim1"] \cup received["sim2"] = 1..Len(streams[SimStream])

\* the message a worker is inside process_message with
InProgress(w) ==
    IF pc[w] \in {"exec", "ack"} THEN {cur[w].mid} ELSE {}

\* C10: a message that fails (decode or execution) does not block the ones
\* after it: as long as the worker is not cancelled, every message it has
\* read has been through process_message, is in it, or is still waiting in
\* the batch the loop iterates over; none is dropped.
C10_LaterMessagesProcessed ==
    \A w \in Workers :
        pc[w] # "stopped"
            => received[w] = handled[w] \cup InProgress(w) \cup SeqRange(batch[w])

\* a worker has processed and acknowledged a message that came after one it
\* failed on (the failed one is still pending)
C10_Witness ==
    \E w \in Workers : \E m1 \in handled[w], m2 \in handled[w] :
        /\ m1 < m2
        /\ m1 \in PendingIds(WorkerStream(w))
        /\ m2 \notin PendingIds(WorkerStream(w))

\* C11: no message is returned by XREADGROUP more than once, to whatever
\* consumer of the group, and processor_func is called at most once for a
\* message, also for the messages left unacknowledged by a failure or a
\* cancellation.
C11_AtMostOneInvocation ==
    \A m \in TaskIds : deliveries[m] <= 1 /\ invoked[m] <= 1

\* a message failed on one worker and is still pending, and the other worker
\* has since read and finished a later message
C11_Witness ==
    \E w \in Workers, v \in Workers : \E m1 \in handled[w], m2 \in handled[v] :
        /\ w # v
        /\ m1 < m2
        /\ m1 \in PendingIds(SimStream)
        /\ invoked[m1] = 1
        /\ pc[w] = "poll"

\* C12: whenever a worker calls processor_func for a task whose row exists,
\* the stored status of the task is processing at that moment.
C12_ProcessingBeforeExecution ==
    [][\A w \in Workers :
          (/\ pc[w] # "exec"
           /\ pc'[w] = "exec"
           /\ cur'[w].task_id \in DOMAIN tasks')
              => tasks'[cur'[w].task_id].status = "processing"]_vars

\* the task id of message m of the simulate stream
TaskOf(m) == streams[SimStream][m].task_id

\* C13: while a worker handles an envelope whose task_id has no row, none of
\* its steps changes the Task Store; the execution returns into the
\* completed update and the acknowledgment, and unless the worker is
\* cancelled or XACK fails the message leaves the pending list and the loop
\* goes on.
C13_MissingRowTolerated ==
    [][\A w \in Workers :
          (/\ cur'[w].mid # 0
           /\ cur'[w].task_id \notin DOMAIN tasks
           /\ <<pc[w], cur[w], handled[w]>> # <<pc'[w], cur'[w], handled'[w]>>)
              => /\ tasks' = tasks
                 /\ (pc[w] = "exec" /\ cur'[w].result # NULL) => pc'[w] = "ack"
                 /\ (pc[w] = "ack" /\ cur'[w].errKind = "none" /\ pc'[w] # "stopped")
                        => /\ cur'[w].mid \notin {p.id : p \in groups'[SimStream].pel}
                           /\ invoked'[cur'[w].mid] = 1
                           /\ pc'[w] \in {"poll", "loop"}]_vars

\* a worker has executed and acknowledged a message without a row and then
\* finished a later message
C13_Witness ==
    \E w \in Workers : \E m1 \in handled[w], m2 \in handled[w] :
        /\ m1 < m2
        /\ TaskOf(m1) \notin DOMAIN tasks
        /\ invoked[m1] = 1
        /\ m1 \notin PendingIds(SimStream)

\* C14: a worker leaves the loop only by cancellation, whatever the poll,
\* the store or the acknowledgment raise; a worker in the loop that is at the
\* poll can read whenever the stream has entries the group has not delivered.
C14_ErrorsDoNotStopLoop ==
    \A w \in Workers :
        /\ pc[w] = "stopped" => w \in cancelled
        /\ (pc[w] = "poll" /\ Len(streams[SimStream]) > groups[SimStream].last)
              => ENABLED Poll(w)

\* an error that is no cancellation has happened, no worker has stopped, and
\* a worker has finished a message and polls again
C14_Witness ==
    /\ faults >= 1
    /\ cancelled = {}
    /\ \A w \in Workers : pc[w] # "stopped"
    /\ \E w \in Workers : handled[w] # {} /\ pc[w] = "poll"

\* the pending entries of the group that were delivered to worker w
PendingOf(g, w) == {p \in g.pel : p.consumer = w}

\* C15: once a worker has been cancelled, no step returns further messages
\* to it and no step removes one of its entries from the pending list.
C15_CancelledWorkerReadsNoMore ==
    [][\A w \in cancelled :
          /\ received'[w] = received[w]
          /\ PendingOf(groups[SimStream], w) \subseteq groups'[SimStream].pel]_vars

\* C16: no two workers are inside process_message (after the processing
\* update, before process_message has returned) for the same task id.
C16_OneWorkerPerTask ==
    \A w1 \in Workers, w2 \in Workers :
        (w1 # w2 /\ InProgress(w1) # {} /\ InProgress(w2) # {})
            => cur[w1].task_id # cur[w2].task_id

\* both workers are executing at the same time, each its own task
C16_Witness ==
    \A w \in Workers : pc[w] = "exec" /\ cur[w].task_id \in TaskIds

\* C17: in the Task Store a non-null result goes with status completed only
\* and a non-null error with status failed only.
C17_ResultAndErrorMatchStatus ==
    \A t \in DOMAIN tasks :
        /\ tasks[t].result # NULL => tasks[t].status = "completed"
        /\ tasks[t].error # NULL => tasks[t].status = "failed"

C19_GroupCreateIdempotent ==
    \A w \in Workers :
        (pc[w] = "init" /\ groups[SimStream].exists)
            => /\ xgroup_create(groups[SimStream], streams[SimStream])
                     = groups[SimStream]
               /\ ENABLED Initialize(w)

\* the second worker has not initialized yet; the first has read messages,
\* and one of them is pending
C19_Witness ==
    /\ pc["sim2"] = "init"
    /\ groups[SimStream].exists
    /\ groups[SimStream].last >= 1
    /\ groups[SimStream].pel # {}

\* the messages process_message has been called with by worker w
Started(w) == handled[w] \cup ({cur[w].mid} \ {0})

\* C20: a worker takes its messages in append order, one after the other:
\* the batch is in increasing order of id and after everything started, and
\* when a message has been started, every earlier message the worker has
\* received has been through process_message.
C20_AppendOrderPerConsumer ==
    \A w \in Workers :
        LET started == Started(w)
        IN  /\ \A i \in 1..(Len(batch[w]) - 1) : batch[w][i] < batch[w][i + 1]
            /\ \A m \in started, b \in SeqRange(batch[w]) : m < b
            /\ \A m1 \in received[w], m2 \in started :
                  m1 < m2 => m1 \in handled[w]

\* a worker has read two messages in one batch, finished the first and is
\* executing the second
C20_Witness ==
    \E w \in Workers :
        /\ handled[w] # {}
        /\ pc[w] = "exec"
        /\ \A m \in handled[w] : m < cur[w].mid
        /\ deliveries[cur[w].mid] = 1

\* C21: a message enters the pending list in the step that delivers it,
\* under the consumer it is delivered to, and an entry leaves the pending
\* list only in the step in which its consumer's process_message
\* acknowledges it and returns without an error.
C21_PendingFromDeliveryToAck ==
    [][/\ \A w \in Workers : \A m \in received'[w] \ received[w] :
              [id |-> m, consumer |-> w] \in groups'[SimStream].pel
       /\ \A p \in groups'[SimStream].pel \ groups[SimStream].pel :
              p.id \in received'[p.consumer] \ received[p.consumer]
       /\ \A p \in groups[SimStream].pel \ groups'[SimStream].pel :
              /\ pc[p.consumer] = "ack"
              /\ cur[p.consumer].mid = p.id
              /\ p.id \in handled'[p.consumer]
              /\ cur'[p.consumer].errKind = "none"]_vars

\* one message has been acknowledged, another has been left pending by a
\* process_message that has returned
C21_Witness ==
    \E w \in Workers, v \in Workers : \E m1 \in handled[w], m2 \in handled[v] :
        /\ m1 \notin PendingIds(SimStream)
        /\ [id |-> m2, consumer |-> v] \in groups[SimStream].pel

\* the partition configured for a task_type in the API, as the routing table
\* of queue_manager is written
ConfiguredStream(task_type) ==
    IF task_type = "simulate" THEN "stream:simulate"
    ELSE IF task_type = "c_qir_convert" THEN "stream:c_qir"
    ELSE IF task_type = "backend_run" THEN "stream:backend"
    ELSE NULL

\* C22: the step in which enqueue_task ends, for the task id in req: with a
\* task_type that has no partition it answers an error and no stream
\* changes; otherwise the partition of the task_type gets exactly one more
\* envelope, the one of the task, and every other stream is unchanged.
C22_EnqueueRoutesOrFails ==
    [][(req # 0 /\ req' = 0) =>
          LET task_type == tasks[req].task_type
              s == ConfiguredStream(task_type)
          IN  IF s = NULL
              THEN /\ streams' = streams
                   /\ resp'[req] = "error"
              ELSE /\ Len(streams'[s]) = Len(streams[s]) + 1
                   /\ SubSeq(streams'[s], 1, Len(streams[s])) = streams[s]
                   /\ streams'[s][Len(streams'[s])].task_id = req
                   /\ streams'[s][Len(streams'[s])].task_type = task_type
                   /\ \A o \in StreamNames \ {s} : streams'[o] = streams[o]
                   /\ resp'[req] = "ok"]_vars

\* one request has been refused and another one has been routed to a stream
\* that holds nothing else
C22_Witness ==
    /\ \E t \in DOMAIN resp : resp[t] = "error"
    /\ \E t \in DOMAIN resp :
          /\ resp[t] = "ok"
          /\ streams[ConfiguredStream(tasks[t].task_type)]
                = <<[task_id |-> t, task_type |-> tasks[t].task_type,
                     payload |-> JsonDumps(tasks[t].payload)]>>
    /\ \E s \in StreamNames : streams[s] = <<>>

\* C23: a worker's process_message is called with a message only when the
\* call for the previous one has returned: a worker is never inside
\* process_message for two messages.
C23_OneMessageAtATime ==
    [][\A w \in Workers :
          cur'[w].mid # cur[w].mid
              => /\ cur[w].mid = 0 \/ cur[w].mid \in handled[w]
                 /\ pc[w] = "loop"
                 /\ received[w] \ handled[w] = SeqRange(batch[w])]_vars

\* a worker is executing the second message of a batch, the first is done
C23_Witness ==
    \E w \in Workers :
        /\ pc[w] = "exec"
        /\ cur[w].mid \notin handled[w]
        /\ \E m \in handled[w] : m < cur[w].mid
        /\ invoked[cur[w].mid] = 1

\* the columns of a row the status update does not name
FrameOf(row) == <<row.task_type, row.payload, row.retry_count, row.max_retries>>

\* C24: a step of a worker adds no row and removes none, changes at most the
\* row of the task of the message the worker is handling, and in that row
\* nothing but status, result and error.
C24_UpdateTouchesStatusColumnsOnly ==
    [][(nextId' = nextId /\ req' = req) =>
          /\ DOMAIN tasks' = DOMAIN tasks
          /\ \A t \in DOMAIN tasks :
                /\ FrameOf(tasks'[t]) = FrameOf(tasks[t])
                /\ tasks'[t] # tasks[t]
                      => \E w \in Workers :
                            /\ cur'[w].task_id = t
                            /\ <<pc[w], cur[w]>> # <<pc'[w], cur'[w]>>]_vars

\* two rows exist, a worker has brought one to failed and the other is as it
\* was inserted
C24_Witness ==
    \E t1 \in DOMAIN tasks, t2 \in DOMAIN tasks :
        /\ t1 # t2
        /\ tasks[t1].status = "failed"
        /\ tasks[t1].retry_count = DefaultRetryCount
        /\ tasks[t2].status = "pending"

\* C25: every task the creation endpoint has appended an envelope for has
\* its row in the Task Store, from the append on.
C25_RowBeforeEnvelope ==
    \A t \in DOMAIN resp :
        resp[t] = "ok" => (Enqueued(t) /\ t \in DOMAIN tasks)

\* a worker is handling a message of the endpoint, whose row exists
C25_Witness ==
    \E w \in Workers :
        /\ pc[w] = "exec"
        /\ cur[w].task_id \in DOMAIN resp
        /\ cur[w].task_id \in DOMAIN tasks

\* C26: when a message has been acknowledged (it was delivered, its
\* process_message has returned and it is not pending) and its task has a
\* row, the stored status of the task is completed or failed.
C26_AckedMeansTerminal ==
    \A w \in Workers : \A m \in handled[w] :
        (m \notin PendingIds(SimStream) /\ TaskOf(m) \in DOMAIN tasks)
            => tasks[TaskOf(m)].status \in Terminal

\* C27: in a step in which a store update of worker w fails (a step of w
\* inside process_message that is counted as a disturbance and does not end
\* the loop), the Task Store does not change and process_message goes on as
\* after a successful update: from the processing update into the
\* execution, from the completed update to the acknowledgment, from the
\* failed update to its return.
C27_UpdateNeverRaises ==
    [][\A w \in Workers :
          (/\ faults' > faults
           /\ cur'[w] # cur[w]
           /\ pc[w] \in {"loop", "exec"}
           /\ pc'[w] # "stopped")
              => /\ cur'[w].updFailed
                 /\ tasks' = tasks
                 /\ IF pc[w] = "loop"
                    THEN pc'[w] = "exec" /\ invoked'[cur'[w].mid] = 1
                    ELSE IF cur'[w].errKind = "none"
                    THEN pc'[w] = "ack"
                    ELSE /\ cur'[w].mid \in handled'[w]
                         /\ pc'[w] \in {"poll", "loop"}]_vars

\* the processing update of a task with a row has failed: the row is as it
\* was and the worker is executing the task
C27_Witness ==
    \E w \in Workers :
        /\ pc[w] = "exec"
        /\ cur[w].updFailed
        /\ w \notin cancelled
        /\ cur[w].task_id \in DOMAIN tasks
        /\ tasks[cur[w].task_id].status = "pending"

====
